---- MODULE Spec2Model ----
(***************************************************************************)
(* Model of contourGen.py (LiDAR contour generator).                       *)
(*                                                                         *)
(* Four specifications share this module:                                  *)
(*   Spec        the "Generate Contour Map" block: figure creation, the    *)
(*               per-class loop with its two skip branches, the progress   *)
(*               bar, the export (lines 72-106);                           *)
(*   SpecFilter  the boolean-mask selection of one class (lines 80-83);    *)
(*   SpecGrid    the construction of x_range / y_range (lines 88-89);      *)
(*   SpecLevels  the construction of the contour levels (line 97).         *)
(* The last two run np.arange on IEEE binary64 values; the arithmetic is   *)
(* modelled bit-exactly (round to nearest, ties to even).                  *)
(***************************************************************************)
EXTENDS Integers, Sequences, FiniteSets

VARIABLES
    \* ---- generate block ----
    las_count,         \* number of points of the cloud per classification code
    field_masked,      \* per code: grid_z.mask.all() of that class's field
    selected_classes,  \* st.multiselect result, in selection order
    custom_colors,     \* colour picked for every selected class
    line_width,        \* slider value, in tenths
    grid_spacing,      \* slider value, in hundredths
    pc,                \* "idle", "loop", "done"
    i,                 \* number of classes the for loop has taken so far
    fig,               \* "none", "open", "closed"
    canvas,            \* visible colour at every canvas location
    layers,            \* the contour sets added to ax, in drawing order
    progress_bar,      \* value the progress bar shows, <<num, den>>
    progress_calls,    \* the calls progress_bar.progress(...) made so far
    n_subplots,        \* how many times plt.subplots ran
    n_savefig,         \* how many times plt.savefig ran
    \* ---- filter ----
    las_x, las_y, las_z, las_classification,   \* the point cloud
    subsets,           \* per code: the x, y, z selected by the mask
    \* ---- grid ----
    g_in,              \* x and y extremes of a subset and grid_spacing: the
                       \* decimal input in tenths and the floats read from it
    g_pc,              \* "start", "x", "y", "grid"
    x_range, y_range,  \* the two np.arange results
    grid_x, grid_y,    \* the np.meshgrid result
    \* ---- levels ----
    z_in,              \* z of a subset: tenths and the floats read from them
    l_pc,              \* "start", "done"
    levels             \* the np.arange result

loopVars   == <<las_count, field_masked, selected_classes, custom_colors,
                line_width, grid_spacing, pc, i, fig, canvas, layers,
                progress_bar, progress_calls, n_subplots, n_savefig>>
filterVars == <<las_x, las_y, las_z, las_classification, subsets>>
gridVars   == <<g_in, g_pc, x_range, y_range, grid_x, grid_y>>
levelVars  == <<z_in, l_pc, levels>>
vars       == <<loopVars, filterVars, gridVars, levelVars>>

----------------------------------------------------------------------------
(* Bounds and program constants                                            *)

NumCodes == 2
Codes == 1..NumCodes
MinPoints == 100
PointCounts == {MinPoints - 1, MinPoints, MinPoints + 1}
Colours == {"red", "blue"}
Locations == {"p", "q"}
LineWidths == {1, 6}
GridSpacings == {50, 100}
MaxPoints == 2
PointValues == 0..1
MaxCoord == 12
SpacingTenths == {5, 10}
MaxZ == 21
ZLengths == {1, 2}

----------------------------------------------------------------------------
(* Idle values of the variables a specification does not use               *)

LoopIdle ==
    /\ las_count = [c \in Codes |-> MinPoints]
    /\ field_masked = [c \in Codes |-> FALSE]
    /\ selected_classes = <<>>
    /\ custom_colors = <<>>
    /\ line_width = 6
    /\ grid_spacing = 100
    /\ pc = "idle"
    /\ i = 0
    /\ fig = "none"
    /\ canvas = <<>>
    /\ layers = <<>>
    /\ progress_bar = <<0, 1>>
    /\ progress_calls = <<>>
    /\ n_subplots = 0
    /\ n_savefig = 0

FilterIdle ==
    /\ las_x = <<>>
    /\ las_y = <<>>
    /\ las_z = <<>>
    /\ las_classification = <<>>
    /\ subsets = <<>>

GridIdle ==
    /\ g_in = <<>>
    /\ g_pc = "idle"
    /\ x_range = <<>>
    /\ y_range = <<>>
    /\ grid_x = <<>>
    /\ grid_y = <<>>

LevelsIdle ==
    /\ z_in = <<>>
    /\ l_pc = "idle"
    /\ levels = <<>>

----------------------------------------------------------------------------
(* The generate block                                                      *)

Range(s) == {s[k] : k \in DOMAIN s}

\* st.multiselect: an ordered choice of distinct options
Selections ==
    {s \in UNION {[1..n -> Codes] : n \in 0..NumCodes} :
        \A a, b \in DOMAIN s : a # b => s[a] # s[b]}

Init ==
    /\ las_count \in [Codes -> PointCounts]
    /\ field_masked \in [Codes -> BOOLEAN]
    /\ selected_classes \in Selections
    /\ custom_colors \in [Range(selected_classes) -> Colours]
    /\ line_width \in LineWidths
    /\ grid_spacing \in GridSpacings
    /\ pc = "idle"
    /\ i = 0
    /\ fig = "none"
    /\ canvas = [p \in Locations |-> "none"]
    /\ layers = <<>>
    /\ progress_bar = <<0, 1>>
    /\ progress_calls = <<>>
    /\ n_subplots = 0
    /\ n_savefig = 0
    /\ FilterIdle /\ GridIdle /\ LevelsIdle

\* the class the loop is about to take
class_code == selected_classes[i + 1]

\* mutant: the threshold test written with <=
TooFewInclusive(n) == n <= MinPoints

\* len(z) < 100
TooFew(n) == n < MinPoints

\* mutant: the loop index counted from 1
ProgressValueFromOne(idx, n) == <<idx + 2, n>>

\* (i + 1) / len(selected_classes), as an exact fraction
ProgressValue(idx, n) == <<idx + 1, n>>

\* mutant: new lines drawn underneath what is already there
PaintUnder(cv, cover, color) ==
    [p \in Locations |-> IF p \in cover /\ cv[p] = "black" THEN color ELSE cv[p]]

\* ax.contour: the new lines hide whatever was at the locations they cover
Paint(cv, cover, color) ==
    [p \in Locations |-> IF p \in cover THEN color ELSE cv[p]]

\* mutant: the loop left after its first iteration
LoopDoneAfterFirst == i >= 1 \/ i = Len(selected_classes)

\* the for loop is exhausted
LoopDone == i = Len(selected_classes)

\* st.button pressed: plt.subplots, ax.set_facecolor, st.progress(0)
Generate ==
    /\ pc = "idle"
    /\ fig' = "open"
    /\ n_subplots' = n_subplots + 1
    /\ canvas' = [p \in Locations |-> "black"]
    /\ progress_bar' = <<0, 1>>
    /\ pc' = "loop"
    /\ i' = 0
    /\ UNCHANGED <<las_count, field_masked, selected_classes, custom_colors,
                   line_width, grid_spacing, layers, progress_calls, n_savefig>>
    /\ UNCHANGED <<filterVars, gridVars, levelVars>>

\* one iteration ending at the first continue (len(z) < 100)
LoopSkipFew ==
    /\ pc = "loop"
    /\ ~LoopDone
    /\ TooFew(las_count[class_code])
    /\ i' = i + 1
    /\ UNCHANGED <<las_count, field_masked, selected_classes, custom_colors,
                   line_width, grid_spacing, pc, fig, canvas, layers,
                   progress_bar, progress_calls, n_subplots, n_savefig>>
    /\ UNCHANGED <<filterVars, gridVars, levelVars>>

\* one iteration ending at the second continue (grid_z.mask.all())
LoopSkipMasked ==
    /\ pc = "loop"
    /\ ~LoopDone
    /\ ~TooFew(las_count[class_code])
    /\ field_masked[class_code]
    /\ i' = i + 1
    /\ UNCHANGED <<las_count, field_masked, selected_classes, custom_colors,
                   line_width, grid_spacing, pc, fig, canvas, layers,
                   progress_bar, progress_calls, n_subplots, n_savefig>>
    /\ UNCHANGED <<filterVars, gridVars, levelVars>>

\* one full iteration: ax.contour, ax.clabel, progress_bar.progress
LoopDraw ==
    /\ pc = "loop"
    /\ ~LoopDone
    /\ ~TooFew(las_count[class_code])
    /\ ~field_masked[class_code]
    /\ \E cover \in SUBSET Locations :
        /\ layers' = Append(layers, [cls |-> class_code,
                                     color |-> custom_colors[class_code],
                                     linewidths |-> line_width,
                                     labels |-> "white",
                                     cover |-> cover])
        /\ canvas' = Paint(canvas, cover, custom_colors[class_code])
    /\ progress_bar' = ProgressValue(i, Len(selected_classes))
    /\ progress_calls' = Append(progress_calls,
                                [idx |-> i,
                                 value |-> ProgressValue(i, Len(selected_classes))])
    /\ i' = i + 1
    /\ UNCHANGED <<las_count, field_masked, selected_classes, custom_colors,
                   line_width, grid_spacing, pc, fig, n_subplots, n_savefig>>
    /\ UNCHANGED <<filterVars, gridVars, levelVars>>

\* after the loop: ax.axis('off'), plt.savefig, plt.close
Export ==
    /\ pc = "loop"
    /\ LoopDone
    /\ n_savefig' = n_savefig + 1
    /\ fig' = "closed"
    /\ pc' = "done"
    /\ UNCHANGED <<las_count, field_masked, selected_classes, custom_colors,
                   line_width, grid_spacing, i, canvas, layers,
                   progress_bar, progress_calls, n_subplots>>
    /\ UNCHANGED <<filterVars, gridVars, levelVars>>

Next ==
    \/ Generate
    \/ LoopSkipFew
    \/ LoopSkipMasked
    \/ LoopDraw
    \/ Export

Spec == Init /\ [][Next]_vars

----------------------------------------------------------------------------
(* IEEE binary64 arithmetic, bit-exact.                                    *)
(* A natural number is its bits, least significant first, without leading  *)
(* zeros (zero is the empty sequence).  A float is [m, e] with value       *)
(* m * 2^e, m odd (or m = 0, e = 0), m of at most MantissaBits bits.  Only *)
(* non-negative, normal values occur: no sign, no overflow, no subnormals. *)

MantissaBits == 53

RECURSIVE BN(_)
BN(n) == IF n = 0 THEN <<>> ELSE <<n % 2>> \o BN(n \div 2)

RECURSIVE BInt(_)
BInt(b) == IF b = <<>> THEN 0 ELSE b[1] + 2 * BInt(Tail(b))

\* b without the zero bits above its highest one bit
BTrim(b) ==
    IF \A k \in 1..Len(b) : b[k] = 0 THEN <<>>
    ELSE SubSeq(b, 1, CHOOSE k \in 1..Len(b) :
                          b[k] = 1 /\ \A j \in (k + 1)..Len(b) : b[j] = 0)

Bit(b, k) == IF k <= Len(b) THEN b[k] ELSE 0

\* bits lo..hi of a + b given the carry into bit lo, and the carry out;
\* the range is halved, and the lower half is evaluated (its carry tested)
\* before the upper half starts, so that the evaluation stays shallow
RECURSIVE AddRange(_, _, _, _, _)
AddRange(a, b, lo, hi, carry) ==
    IF lo = hi
    THEN LET t == Bit(a, lo) + Bit(b, lo) + carry
         IN  [s |-> <<t % 2>>, c |-> t \div 2]
    ELSE LET mid   == (lo + hi) \div 2
             left  == AddRange(a, b, lo, mid, carry)
         IN  IF left.c \in {0, 1}
             THEN LET right == AddRange(a, b, mid + 1, hi, left.c)
                  IN  [s |-> left.s \o right.s, c |-> right.c]
             ELSE left

BAdd(a, b) ==
    IF a = <<>> THEN b
    ELSE IF b = <<>> THEN a
    ELSE LET n == IF Len(a) >= Len(b) THEN Len(a) ELSE Len(b)
             r == AddRange(a, b, 1, n, 0)
         IN  IF r.c = 1 THEN Append(r.s, 1) ELSE r.s

\* bits lo..hi of a - b given the borrow into bit lo, and the borrow out
RECURSIVE SubRange(_, _, _, _, _)
SubRange(a, b, lo, hi, borrow) ==
    IF lo = hi
    THEN LET t == Bit(a, lo) - Bit(b, lo) - borrow
         IN  [s |-> <<t % 2>>, c |-> IF t < 0 THEN 1 ELSE 0]
    ELSE LET mid   == (lo + hi) \div 2
             left  == SubRange(a, b, lo, mid, borrow)
         IN  IF left.c \in {0, 1}
             THEN LET right == SubRange(a, b, mid + 1, hi, left.c)
                  IN  [s |-> left.s \o right.s, c |-> right.c]
             ELSE left

\* a - b, for a >= b
BSub(a, b) == IF a = <<>> THEN <<>> ELSE BTrim(SubRange(a, b, 1, Len(a), 0).s)

\* a < b, comparing from the most significant bit
BLess(a, b) ==
    \/ Len(a) < Len(b)
    \/ /\ Len(a) = Len(b)
       /\ \E k \in 1..Len(a) :
             /\ a[k] < b[k]
             /\ \A j \in (k + 1)..Len(a) : a[j] = b[j]

BShl(a, k) == IF a = <<>> THEN <<>> ELSE [j \in 1..k |-> 0] \o a

BShr(a, k) == IF k >= Len(a) THEN <<>> ELSE SubSeq(a, k + 1, Len(a))

RECURSIVE BMul(_, _)
BMul(a, b) ==
    IF a = <<>> \/ b = <<>> THEN <<>>
    ELSE LET rest == BShl(BMul(Tail(a), b), 1)
         IN  IF a[1] = 1 THEN BAdd(rest, b) ELSE rest

\* one step of the long division of a by d: bit k of a is brought down
DivStep(a, d, st, k) ==
    LET r2 == IF st.r = <<>> /\ a[k] = 0 THEN <<>> ELSE <<a[k]>> \o st.r
    IN  IF BLess(r2, d)
        THEN [q |-> <<0>> \o st.q, r |-> r2]
        ELSE [q |-> <<1>> \o st.q, r |-> BSub(r2, d)]

\* the steps for bits hi down to lo of a, the range halved as above
RECURSIVE DivRange(_, _, _, _, _)
DivRange(a, d, st, hi, lo) ==
    IF hi = lo THEN DivStep(a, d, st, hi)
    ELSE LET mid   == (hi + lo) \div 2
             upper == DivRange(a, d, st, hi, mid + 1)
         IN  IF Len(upper.q) > 0
             THEN DivRange(a, d, upper, mid, lo)
             ELSE upper

\* <<quotient, remainder>> of a by d # 0
BDivMod(a, d) ==
    IF a = <<>> THEN <<(<<>>), (<<>>)>>
    ELSE LET st == DivRange(a, d, [q |-> <<>>, r |-> <<>>], Len(a), 1)
         IN  <<BTrim(st.q), st.r>>

\* the number of zero bits below the lowest one bit of b # 0
LowZeros(b) == (CHOOSE k \in 1..Len(b) : b[k] = 1 /\ \A j \in 1..(k - 1) : b[j] = 0) - 1

FZero == [m |-> <<>>, e |-> 0]

\* the float of value b * 2^e, for b of at most MantissaBits bits
FCanon(b, e) ==
    IF b = <<>> THEN FZero
    ELSE [m |-> BShr(b, LowZeros(b)), e |-> e + LowZeros(b)]

\* b * 2^e rounded to the nearest float, ties to the even mantissa
FRound(b, e) ==
    IF Len(b) <= MantissaBits THEN FCanon(b, e)
    ELSE LET k      == Len(b) - MantissaBits
             hi     == BShr(b, k)
             sticky == \E j \in 1..(k - 1) : b[j] = 1
             up     == b[k] = 1 /\ (sticky \/ hi[1] = 1)
         IN  FCanon(IF up THEN BAdd(hi, <<1>>) ELSE hi, e + k)

MinInt(a, b) == IF a <= b THEN a ELSE b

\* the mantissa of x once its exponent is lowered to e
Aligned(x, e) == BShl(x.m, x.e - e)

FromNat(n) == FCanon(BN(n), 0)

FLess(x, y) ==
    LET e == MinInt(x.e, y.e) IN BLess(Aligned(x, e), Aligned(y, e))

FAdd(x, y) ==
    LET e == MinInt(x.e, y.e) IN FRound(BAdd(Aligned(x, e), Aligned(y, e)), e)

\* x - y, for x >= y
FSub(x, y) ==
    LET e == MinInt(x.e, y.e) IN FRound(BSub(Aligned(x, e), Aligned(y, e)), e)

\* k * y for an integer k >= 0
FMulNat(k, y) == FRound(BMul(BN(k), y.m), y.e)

\* x / y, for y # 0: the quotient is taken to MantissaBits + 2 bits and a
\* sticky bit for the remainder, then rounded
FDiv(x, y) ==
    IF x.m = <<>> THEN FZero
    ELSE LET need == MantissaBits + 2 + Len(y.m) - Len(x.m)
             s    == IF need > 0 THEN need ELSE 0
             qr   == BDivMod(BShl(x.m, s), y.m)
             st   == IF qr[2] = <<>> THEN 0 ELSE 1
         IN  FRound(<<st>> \o qr[1], x.e - y.e - s - 1)

\* the integer part of x, as an integer
FTrunc(x) == IF x.e >= 0 THEN BInt(BShl(x.m, x.e)) ELSE BInt(BShr(x.m, -x.e))

\* x has no fractional part
FIsInt(x) == x.e >= 0

\* np.floor, np.ceil (x >= 0)
FFloor(x) == FromNat(FTrunc(x))
FCeil(x) == IF FIsInt(x) THEN x ELSE FromNat(FTrunc(x) + 1)

\* the float nearest to the decimal n / 10
FTenths(n) == FDiv(FromNat(n), FromNat(10))

\* np.arange(start, stop, step) for floats, stop >= start, step > 0:
\* length ceil((stop - start) / step); elements start, start + step, and
\* start + k * delta from the third on, with delta = (start + step) - start.
\* (ArangeLenInclusive is a mutant: the stop value counted in.)
ArangeLenInclusive(start, stop, step) ==
    FTrunc(FDiv(FSub(stop, start), step)) + 1

ArangeLen(start, stop, step) ==
    LET q == FDiv(FSub(stop, start), step)
    IN  IF FIsInt(q) THEN FTrunc(q) ELSE FTrunc(q) + 1

Arange(start, stop, step) ==
    LET next  == FAdd(start, step)
        delta == FSub(next, start)
    IN  [k \in 1..ArangeLen(start, stop, step) |->
            IF k = 1 THEN start
            ELSE IF k = 2 THEN next
            ELSE FAdd(start, FMulNat(k - 1, delta))]

----------------------------------------------------------------------------
(* The class filter (lines 80-83)                                          *)

\* arr[mask]: the elements of arr at the positions where mask is TRUE, in
\* the order they have in arr
RECURSIVE BoolIndex(_, _)
BoolIndex(arr, mask) ==
    IF arr = <<>> THEN <<>>
    ELSE LET rest == BoolIndex(Tail(arr), Tail(mask))
         IN  IF mask[1] THEN <<arr[1]>> \o rest ELSE rest

\* mutant: the mask written with >= instead of ==
MaskAtLeast(code) ==
    [k \in DOMAIN las_classification |-> las_classification[k] >= code]

\* las.classification == class_code
Mask(code) ==
    [k \in DOMAIN las_classification |-> las_classification[k] = code]

NoSubset == [done |-> FALSE, x |-> <<>>, y |-> <<>>, z |-> <<>>]

InitFilter ==
    /\ \E n \in 0..MaxPoints :
          /\ las_x \in [1..n -> PointValues]
          /\ las_y \in [1..n -> PointValues]
          /\ las_z \in [1..n -> PointValues]
          /\ las_classification \in [1..n -> Codes]
    /\ subsets = [c \in Codes |-> NoSubset]
    /\ LoopIdle /\ GridIdle /\ LevelsIdle

\* mask = las.classification == class_code; x, y, z = las.x/y/z[mask]
FilterClass(code) ==
    /\ ~subsets[code].done
    /\ subsets' = [subsets EXCEPT ![code] =
                      [done |-> TRUE,
                       x |-> BoolIndex(las_x, Mask(code)),
                       y |-> BoolIndex(las_y, Mask(code)),
                       z |-> BoolIndex(las_z, Mask(code))]]
    /\ UNCHANGED <<las_x, las_y, las_z, las_classification>>
    /\ UNCHANGED <<loopVars, gridVars, levelVars>>

NextFilter == \E code \in Codes : FilterClass(code)

SpecFilter == InitFilter /\ [][NextFilter]_vars

----------------------------------------------------------------------------
(* The grid (lines 88-90)                                                  *)

InitGrid ==
    /\ \E xl \in 0..MaxCoord, xh \in 0..MaxCoord, yh \in 0..MaxCoord,
          sp \in SpacingTenths :
          /\ xl <= xh
          /\ g_in = [tenths |-> [xmin |-> xl, xmax |-> xh, ymin |-> 0,
                                 ymax |-> yh, spacing |-> sp],
                     xmin |-> FTenths(xl), xmax |-> FTenths(xh),
                     ymin |-> FTenths(0), ymax |-> FTenths(yh),
                     spacing |-> FTenths(sp)]
    /\ g_pc = "start"
    /\ x_range = <<>>
    /\ y_range = <<>>
    /\ grid_x = <<>>
    /\ grid_y = <<>>
    /\ LoopIdle /\ FilterIdle /\ LevelsIdle

\* x_range = np.arange(np.min(x), np.max(x), grid_spacing)
BuildXRange ==
    /\ g_pc = "start"
    /\ x_range' = Arange(g_in.xmin, g_in.xmax, g_in.spacing)
    /\ g_pc' = "x"
    /\ UNCHANGED <<g_in, y_range, grid_x, grid_y>>
    /\ UNCHANGED <<loopVars, filterVars, levelVars>>

\* y_range = np.arange(np.min(y), np.max(y), grid_spacing)
BuildYRange ==
    /\ g_pc = "x"
    /\ y_range' = Arange(g_in.ymin, g_in.ymax, g_in.spacing)
    /\ g_pc' = "y"
    /\ UNCHANGED <<g_in, x_range, grid_x, grid_y>>
    /\ UNCHANGED <<loopVars, filterVars, levelVars>>

\* grid_x, grid_y = np.meshgrid(x_range, y_range): one row per y, one
\* column per x
Meshgrid ==
    /\ g_pc = "y"
    /\ grid_x' = [r \in 1..Len(y_range) |-> [c \in 1..Len(x_range) |-> x_range[c]]]
    /\ grid_y' = [r \in 1..Len(y_range) |-> [c \in 1..Len(x_range) |-> y_range[r]]]
    /\ g_pc' = "grid"
    /\ UNCHANGED <<g_in, x_range, y_range>>
    /\ UNCHANGED <<loopVars, filterVars, levelVars>>

NextGrid ==
    \/ BuildXRange
    \/ BuildYRange
    \/ Meshgrid

SpecGrid == InitGrid /\ [][NextGrid]_vars

----------------------------------------------------------------------------
(* The contour levels (line 97)                                            *)

\* the literal 0.2
LevelStep == FTenths(2)

\* np.min, np.max of a non-empty array of floats
NpMin(arr) == CHOOSE v \in Range(arr) : \A w \in Range(arr) : ~FLess(w, v)
NpMax(arr) == CHOOSE v \in Range(arr) : \A w \in Range(arr) : ~FLess(v, w)

\* mutant: the upper end of the levels floored instead of ceiled
LevelStopFloor(z) == FFloor(NpMax(z))

\* np.floor(np.min(z)), np.ceil(np.max(z))
LevelStart(z) == FFloor(NpMin(z))
LevelStop(z) == FCeil(NpMax(z))

InitLevels ==
    /\ \E n \in ZLengths : \E t \in [1..n -> 0..MaxZ] :
          z_in = [tenths |-> t, z |-> [k \in 1..n |-> FTenths(t[k])]]
    /\ l_pc = "start"
    /\ levels = <<>>
    /\ LoopIdle /\ FilterIdle /\ GridIdle

\* levels = np.arange(np.floor(np.min(z)), np.ceil(np.max(z)), 0.2)
MakeLevels ==
    /\ l_pc = "start"
    /\ levels' = Arange(LevelStart(z_in.z), LevelStop(z_in.z), LevelStep)
    /\ l_pc' = "done"
    /\ UNCHANGED z_in
    /\ UNCHANGED <<loopVars, filterVars, gridVars>>

NextLevels == MakeLevels

SpecLevels == InitLevels /\ [][NextLevels]_vars

----------------------------------------------------------------------------
(* Properties of the generate block                                        *)

FracLE(a, b) == a[1] * b[2] <= b[1] * a[2]
FracEq(a, b) == a[1] * b[2] = b[1] * a[2]

\* the classes the loop has already taken
Taken == SubSeq(selected_classes, 1, i)

\* a class the claims expect to be drawn: at least 100 points and a field
\* with at least one valid cell
Drawable(c) == las_count[c] >= 100 /\ ~field_masked[c]

LayerClasses == [k \in 1..Len(layers) |-> layers[k].cls]

\* the layers that cover location p, by position in drawing order
Covering(p) == {k \in 1..Len(layers) : p \in layers[k].cover}

Last(S) == CHOOSE k \in S : \A m \in S : m <= k

\* C1: in a run over a non-empty class list the progress sink is notified
\* after every class of the list, drawn or skipped: once the loop has taken
\* i classes there have been i notifications, the k-th for the class at
\* position k, and when the canvas is exported the bar shows 1.0.
C1_ProgressAfterEveryClass ==
    /\ pc # "idle" =>
          /\ Len(progress_calls) = i
          /\ \A k \in 1..Len(progress_calls) : progress_calls[k].idx = k - 1
    /\ (pc = "done" /\ selected_classes # <<>>) => FracEq(progress_bar, <<1, 1>>)

\* C2: the values reported to the progress sink never decrease, all lie in
\* [0, 1], and the value reported for the class at 0-based position idx is
\* (idx + 1) / len(selected_classes); the bar shows the last value reported.
C2_ProgressMonotoneInUnitInterval ==
    /\ \A k \in 1..Len(progress_calls) :
          LET v    == progress_calls[k].value
              prev == IF k = 1 THEN <<0, 1>> ELSE progress_calls[k - 1].value
          IN  /\ v[2] > 0
              /\ FracLE(<<0, 1>>, v)
              /\ FracLE(v, <<1, 1>>)
              /\ FracLE(prev, v)
              /\ FracEq(v, <<progress_calls[k].idx + 1, Len(selected_classes)>>)
    /\ progress_bar = IF progress_calls = <<>> THEN <<0, 1>>
                      ELSE progress_calls[Len(progress_calls)].value

\* a run where the first class was skipped and the second reported 2/2
C2_Witness ==
    /\ pc = "done"
    /\ Len(selected_classes) = 2
    /\ Len(progress_calls) = 1
    /\ progress_calls[1].idx = 1
    /\ progress_calls[1].value = <<2, 2>>

\* C3: a class taken by the loop has a layer on the canvas if and only if it
\* has at least 100 points and its field has a valid cell; the iteration of a
\* class with fewer than 100 points or an entirely invalid field leaves the
\* canvas and its layers unchanged and stays in the loop, and the loop ends
\* only after it has taken every class of the list.
C3_DrawnIffEnoughPointsAndValidField ==
    /\ [](\A j \in 1..i :
            (selected_classes[j] \in Range(LayerClasses))
                <=> Drawable(selected_classes[j]))
    /\ [](pc = "done" => i = Len(selected_classes))
    /\ [][(i' = i + 1 /\ ~Drawable(selected_classes[i + 1]))
            => (canvas' = canvas /\ layers' = layers /\ pc' = "loop")]_vars

\* a run over [a, b] where a has exactly 99 points and b was drawn after it
C3_Witness ==
    /\ pc = "done"
    /\ Len(selected_classes) = 2
    /\ las_count[selected_classes[1]] = 99
    /\ LayerClasses = <<selected_classes[2]>>
    /\ field_masked[selected_classes[1]] = FALSE

C10_CanvasCreatedAndExportedOnce ==
    /\ [](/\ n_subplots <= 1
          /\ n_savefig <= 1
          /\ (i > 0 \/ layers # <<>>) => n_subplots = 1
          /\ n_savefig = 1 => (i = Len(selected_classes) /\ n_subplots = 1
                                /\ fig = "closed")
          /\ pc = "done" => n_savefig = 1)
    /\ [][(i' # i \/ layers' # layers) => (fig = "open" /\ n_subplots' = n_subplots
                                            /\ n_savefig = 0)]_vars
    /\ [][n_savefig = 1 => (layers' = layers /\ canvas' = canvas
                             /\ n_savefig' = 1)]_vars

\* an exported run over two classes, one drawn and one skipped
C10_Witness ==
    /\ pc = "done"
    /\ n_savefig = 1
    /\ Len(selected_classes) = 2
    /\ Len(layers) = 1

----------------------------------------------------------------------------
(* Properties of the class filter                                          *)

\* the positions of the points of class code
Matching(code) == {k \in DOMAIN las_classification : las_classification[k] = code}

\* the position of the j-th point of class code
NthMatching(code, j) ==
    CHOOSE k \in Matching(code) : Cardinality({m \in Matching(code) : m <= k}) = j

PointSet(xs, ys, zs) == {<<xs[k], ys[k], zs[k]>> : k \in DOMAIN xs}

SubsetExact(code) ==
    LET sub == subsets[code]
        n   == Cardinality(Matching(code))
    IN  /\ Len(sub.x) = n /\ Len(sub.y) = n /\ Len(sub.z) = n
        /\ \A j \in 1..n :
              /\ sub.x[j] = las_x[NthMatching(code, j)]
              /\ sub.y[j] = las_y[NthMatching(code, j)]
              /\ sub.z[j] = las_z[NthMatching(code, j)]

\* C9: the subset selected for a code holds exactly the points of that
\* code, in their original order, x, y and z of equal length and taken from
\* the same point at every index (so its length is the number of such
\* points, zero when there is none); for any set of codes that covers every
\* point, the union of their subsets is the whole point set; the cloud
\* itself never changes.
C9_FilterExact ==
    /\ [](\A code \in Codes : subsets[code].done => SubsetExact(code))
    /\ [](\A S \in SUBSET Codes :
            (/\ \A c \in S : subsets[c].done
             /\ \A k \in DOMAIN las_classification : las_classification[k] \in S)
            => UNION {PointSet(subsets[c].x, subsets[c].y, subsets[c].z) : c \in S}
                 = PointSet(las_x, las_y, las_z))
    /\ [][UNCHANGED <<las_x, las_y, las_z, las_classification>>]_vars

\* two points of class 1 with decreasing x, both selected in cloud order,
\* and an empty subset for class 2
C9_Witness ==
    /\ las_classification = <<1, 1>>
    /\ las_x = <<1, 0>>
    /\ subsets[1].done /\ subsets[1].x = <<1, 0>>
    /\ subsets[2].done /\ subsets[2].z = <<>>

----------------------------------------------------------------------------
(* Properties of the grid                                                  *)

\* ceil((hi - lo) / step), the difference and the quotient taken in floats
CeilQuot(lo, hi, step) ==
    LET q == FDiv(FSub(hi, lo), step)
    IN  FTrunc(q) + (IF FIsInt(q) THEN 0 ELSE 1)

AxisHalfOpen(r, lo, hi, step) ==
    /\ Len(r) = CeilQuot(lo, hi, step)
    /\ lo = hi => r = <<>>
    /\ r # <<>> => r[1] = lo
    /\ \A k \in 1..(Len(r) - 1) : FLess(r[k], r[k + 1])
    /\ \A k \in 1..Len(r) : FLess(r[k], hi)

\* C6: each axis of the grid has ceil((max - min) / spacing) elements, starts
\* at the subset's minimum, is strictly increasing, is empty when minimum
\* and maximum coincide, and every element is strictly less than the
\* subset's maximum.
C6_GridHalfOpen ==
    /\ g_pc \in {"x", "y", "grid"} =>
          AxisHalfOpen(x_range, g_in.xmin, g_in.xmax, g_in.spacing)
    /\ g_pc \in {"y", "grid"} =>
          AxisHalfOpen(y_range, g_in.ymin, g_in.ymax, g_in.spacing)

----------------------------------------------------------------------------
(* Properties of the contour levels                                        *)

MinTenths == CHOOSE t \in Range(z_in.tenths) : \A u \in Range(z_in.tenths) : t <= u
MaxTenths == CHOOSE t \in Range(z_in.tenths) : \A u \in Range(z_in.tenths) : u <= t

\* floor(min(z)) and ceil(max(z)) as integers, from the decimal input
FloorMinZ == MinTenths \div 10
CeilMaxZ == (MaxTenths + 9) \div 10

\* 5 * v differs from the integer t by less than 2^-30
NearFifth(v, t) ==
    LET k    == IF v.e < 0 THEN -v.e ELSE 0
        a    == BShl(BMul(BN(5), v.m), v.e + k)
        b    == BShl(BN(t), k)
        diff == IF BLess(a, b) THEN BSub(b, a) ELSE BSub(a, b)
    IN  diff = <<>> \/ Len(diff) <= k - 30

\* C7: the levels are the values floor(min z) + 0.2 k, k = 0, 1, ..., that
\* are below ceil(max z): there are 5 * (ceil(max z) - floor(min z)) of
\* them, the first is floor(min z), they increase strictly, none reaches
\* ceil(max z), and the k-th is floor(min z) + k / 5 up to rounding (less
\* than 2^-30 / 5 away); nothing but min(z) and max(z) enters.
C7_LevelSet ==
    l_pc = "done" =>
        /\ Len(levels) = 5 * (CeilMaxZ - FloorMinZ)
        /\ levels # <<>> => levels[1] = FromNat(FloorMinZ)
        /\ \A k \in 1..(Len(levels) - 1) : FLess(levels[k], levels[k + 1])
        /\ \A k \in 1..Len(levels) :
              /\ FLess(levels[k], FromNat(CeilMaxZ))
              /\ NearFifth(levels[k], 5 * FloorMinZ + (k - 1))

\* levels for a subset with min(z) = 0.3 and max(z) = 1.7: 0.0, 0.2, ... 1.8
C7_Witness ==
    /\ l_pc = "done"
    /\ MinTenths = 3
    /\ MaxTenths = 17
    /\ Len(levels) = 10
    /\ levels[1] = FZero

ConstantZ == MinTenths = MaxTenths

\* C8 as stated: for a subset of constant elevation the level set has at
\* most one element.
C8_ConstantZAtMostOneLevel ==
    (l_pc = "done" /\ ConstantZ) => Len(levels) <= 1

\* C8 as amended: for a subset of constant elevation z the level set is
\* empty when z is an integer and otherwise has exactly five elements,
\* floor(z) + 0.2 k for k = 0..4, all below ceil(z).
C8_ConstantZNoneOrFiveLevels ==
    (l_pc = "done" /\ ConstantZ) =>
        /\ Len(levels) = IF MinTenths % 10 = 0 THEN 0 ELSE 5
        /\ \A k \in 1..Len(levels) :
              /\ NearFifth(levels[k], 5 * FloorMinZ + (k - 1))
              /\ FLess(levels[k], FromNat(FloorMinZ + 1))

\* a subset of constant elevation 1.5 and its five levels
C8_Witness ==
    /\ l_pc = "done"
    /\ ConstantZ
    /\ MinTenths = 15
    /\ Len(levels) = 5
    /\ levels[1] = FromNat(1)

====
